---- MODULE Spec2Model ----
(***************************************************************************)
(* Clock/reset generator (_CRG) of the ZCU104 target.                      *)
(*                                                                         *)
(* Two clocked loops:                                                      *)
(*   - sync.clk200 (bring-up clock): ic_reset_counter, ic_reset            *)
(*   - sync.ic     (clock of cd_sys): ic_rdy_counter, cd_sys.rst           *)
(* Each clock domain's reset comes from an AsyncResetSynchronizer: two     *)
(* flip-flops with asynchronous preset, clocked by the domain's clock.     *)
(* Registers of a domain that has a reset are reloaded with their reset    *)
(* value on every tick that finds the domain's reset asserted.             *)
(* Signals are 0/1 as in the source.                                       *)
(***************************************************************************)
EXTENDS Naturals, Integers

VARIABLES
    with_sdram,        \* constructor argument: IDELAYCTRL instantiated
    cpu_reset,         \* platform.request("cpu_reset"), asynchronous input
    locked,            \* pll.locked, asynchronous input
    ic_rdy,            \* IDELAYCTRL.RDY, or constant 1 without sdram
    clk200_rst_meta,   \* first flip-flop of the synchronizer of cd_clk200
    clk200_rst,        \* cd_clk200.rst
    ic_reset_counter,  \* Countdown-1
    ic_reset,          \* intermediate reset
    ic_rst_meta,       \* first flip-flop of the synchronizer of cd_ic
    ic_rst,            \* cd_ic.rst
    ic_rdy_counter,    \* Countdown-2
    sys_rst,           \* cd_sys.rst, the primary-domain reset bit
    arm_prog,          \* observer: ticks seen since the asynchronous reset request began
    stage,             \* observer: prerequisites met since the last bring-up re-arm
    dec1,              \* observer: decrements of Countdown-1 since the last bring-up re-arm
    dec2,              \* observer: decrements of Countdown-2 since the last bring-up re-arm
    n200,              \* observer: bring-up ticks since the reset request ended, ic_reset still 1
    nic,               \* observer: primary ticks since ic_reset fell that found ic_rdy = 1, until release
    wait,              \* observer: primary ticks since ic_reset fell that found ic_rdy = 0
    ever_released,     \* observer: cd_sys.rst has been 0 at some time since construction
    ever_locked,       \* observer: pll.locked has been 1 at some time since construction
    rdy_d1,            \* observer: ic_rdy as it was at the previous primary tick
    rdy_d2             \* observer: ic_rdy as it was two primary ticks ago

vars == <<with_sdram, cpu_reset, locked, ic_rdy, clk200_rst_meta, clk200_rst,
          ic_reset_counter, ic_reset, ic_rst_meta, ic_rst, ic_rdy_counter, sys_rst,
          arm_prog, stage, dec1, dec2, n200, nic, wait, ever_released,
          ever_locked, rdy_d1, rdy_d2>>

Bit == {0, 1}

\* Signal(max=64, reset=63)
IC_RESET_COUNTER_RESET == 63
IC_RDY_COUNTER_RESET == 63
\* largest idle wait the observer `wait` distinguishes
MaxWait == 12

Min(a, b) == IF a < b THEN a ELSE b

\* Faulty variant: cpu_reset left out of the reset of cd_clk200.
Clk200AsyncReset_LockOnly(lck, rst) == IF lck = 0 THEN 1 ELSE 0

\* Faulty variant: ~pll.locked left out of the reset of cd_clk200.
Clk200AsyncReset_ResetOnly(lck, rst) == IF rst = 1 THEN 1 ELSE 0

\* ~pll.locked | cpu_reset
Clk200AsyncReset(lck, rst) == IF lck = 0 \/ rst = 1 THEN 1 ELSE 0

\* Faulty variant: a single flip-flop instead of two.
AsyncResetSynchronizer_OneStage(async, meta, rst) ==
    IF async = 1 THEN [meta |-> 1, rst |-> 1]
                 ELSE [meta |-> 0, rst |-> 0]

\* One clock edge of an AsyncResetSynchronizer: FDPE(D=0) -> FDPE -> cd.rst,
\* both preset while the asynchronous reset is high.
AsyncResetSynchronizer(async, meta, rst) ==
    IF async = 1 THEN [meta |-> 1, rst |-> 1]
                 ELSE [meta |-> 0, rst |-> meta]

\* The preset between clock edges: it acts as soon as the asynchronous reset is high.
AsyncPreset(async, meta, rst) ==
    IF async = 1 THEN [meta |-> 1, rst |-> 1]
                 ELSE [meta |-> meta, rst |-> rst]

\* Faulty variant: ic_reset released while the counter still holds 1.
Clk200Sync_EarlyRelease(cnt, rst) ==
    IF cnt > 1 THEN [counter |-> cnt - 1, reset |-> rst]
               ELSE [counter |-> cnt,     reset |-> 0]

\* Faulty variant: ic_reset released by the tick that decrements the counter to 0.
Clk200Sync_ReleaseOnLastDecrement(cnt, rst) ==
    IF cnt # 0 THEN [counter |-> cnt - 1, reset |-> IF cnt = 1 THEN 0 ELSE rst]
               ELSE [counter |-> cnt,     reset |-> 0]

\* Faulty variant: the counter decremented without the test for 0, in 6 bits.
Clk200Sync_Wrap(cnt, rst) ==
    [counter |-> (cnt + 63) % 64, reset |-> IF cnt = 0 THEN 0 ELSE rst]

\* sync.clk200 statement
Clk200Sync(cnt, rst) ==
    IF cnt # 0 THEN [counter |-> cnt - 1, reset |-> rst]
               ELSE [counter |-> cnt,     reset |-> 0]

\* sync.clk200 with the reset of cd_clk200 taking priority
Clk200Update(drst, cnt, rst) ==
    IF drst = 1 THEN [counter |-> IC_RESET_COUNTER_RESET, reset |-> 1]
                ELSE Clk200Sync(cnt, rst)

\* Faulty variant: the If(ic_rdy, ...) guard left out.
IcSync_NoReadyGate(rdy, cnt, rst) ==
    IF cnt # 0 THEN [counter |-> cnt - 1, rst |-> rst]
               ELSE [counter |-> cnt,     rst |-> 0]

\* Faulty variant: ic_rdy guards only the release, not the count.
IcSync_GateReleaseOnly(rdy, cnt, rst) ==
    IF cnt # 0 THEN [counter |-> cnt - 1, rst |-> rst]
               ELSE [counter |-> cnt, rst |-> IF rdy = 1 THEN 0 ELSE rst]

\* Faulty variant: the sense of ic_rdy inverted.
IcSync_InvertedReady(rdy, cnt, rst) ==
    IF rdy = 0
    THEN IF cnt # 0 THEN [counter |-> cnt - 1, rst |-> rst]
                    ELSE [counter |-> cnt,     rst |-> 0]
    ELSE [counter |-> cnt, rst |-> rst]

\* Faulty variant: cd_sys.rst follows ~ic_rdy.
IcSync_ReassertOnNotReady(rdy, cnt, rst) ==
    IF rdy = 1
    THEN IF cnt # 0 THEN [counter |-> cnt - 1, rst |-> rst]
                    ELSE [counter |-> cnt,     rst |-> 0]
    ELSE [counter |-> cnt, rst |-> 1]

\* Faulty variant: a tick that finds ic_rdy low reloads the counter.
IcSync_ReloadOnNotReady(rdy, cnt, rst) ==
    IF rdy = 1
    THEN IF cnt # 0 THEN [counter |-> cnt - 1, rst |-> rst]
                    ELSE [counter |-> cnt,     rst |-> 0]
    ELSE [counter |-> IF rst = 1 THEN 63 ELSE cnt, rst |-> rst]

\* Faulty variant: the Else branch that deasserts cd_sys.rst left out.
IcSync_NeverRelease(rdy, cnt, rst) ==
    IF rdy = 1 /\ cnt # 0 THEN [counter |-> cnt - 1, rst |-> rst]
                           ELSE [counter |-> cnt,     rst |-> rst]

\* sync.ic statement
IcSync(rdy, cnt, rst) ==
    IF rdy = 1
    THEN IF cnt # 0 THEN [counter |-> cnt - 1, rst |-> rst]
                    ELSE [counter |-> cnt,     rst |-> 0]
    ELSE [counter |-> cnt, rst |-> rst]

\* Faulty variant: cd_ic without reset (reset_less).
IcUpdate_NoDomainReset(drst, rdy, cnt, rst) == IcSync(rdy, cnt, rst)

\* Faulty variant: the domain reset re-asserts cd_sys.rst but does not reload the counter.
IcUpdate_NoReload(drst, rdy, cnt, rst) ==
    IF drst = 1 THEN [counter |-> cnt, rst |-> 1]
                ELSE IcSync(rdy, cnt, rst)

\* sync.ic with the reset of cd_ic taking priority
IcUpdate(drst, rdy, cnt, rst) ==
    IF drst = 1 THEN [counter |-> IC_RDY_COUNTER_RESET, rst |-> 1]
                ELSE IcSync(rdy, cnt, rst)

Init ==
    /\ with_sdram \in BOOLEAN
    /\ cpu_reset \in Bit
    /\ locked = 0
    /\ ic_rdy \in (IF with_sdram THEN Bit ELSE {1})
    /\ clk200_rst_meta = 1
    /\ clk200_rst = 1
    /\ ic_reset_counter = IC_RESET_COUNTER_RESET
    /\ ic_reset = 1
    /\ ic_rst_meta = 1
    /\ ic_rst = 1
    /\ ic_rdy_counter = IC_RDY_COUNTER_RESET
    /\ sys_rst = 1
    /\ arm_prog = 0
    /\ stage = 0
    /\ dec1 = 0
    /\ dec2 = 0
    /\ n200 = 0
    /\ nic = 0
    /\ wait = 0
    /\ ever_released = FALSE
    /\ ever_locked = FALSE
    /\ rdy_d1 = 0
    /\ rdy_d2 = 0

\* A change of cpu_reset or pll.locked: the synchronizer of cd_clk200 is preset at once.
InputChange(lck, rst) ==
    LET was == Clk200AsyncReset(locked, cpu_reset)
        now == Clk200AsyncReset(lck, rst)
        s   == AsyncPreset(now, clk200_rst_meta, clk200_rst)
    IN  /\ locked' = lck
        /\ cpu_reset' = rst
        /\ clk200_rst_meta' = s.meta
        /\ clk200_rst' = s.rst
        /\ arm_prog' = IF was = now THEN arm_prog ELSE 0
        /\ n200' = IF now = 1 THEN 0 ELSE n200
        /\ ever_locked' = (ever_locked \/ lck = 1)
        /\ UNCHANGED <<with_sdram, ic_rdy, ic_reset_counter, ic_reset, ic_rst_meta,
                       ic_rst, ic_rdy_counter, sys_rst, stage, dec1, dec2, nic, wait,
                       ever_released, rdy_d1, rdy_d2>>

SetCpuReset == \E v \in Bit : v # cpu_reset /\ InputChange(locked, v)

SetLocked == \E v \in Bit : v # locked /\ InputChange(v, cpu_reset)

\* IDELAYCTRL.RDY is driven from outside; without sdram ic_rdy is the constant 1.
SetRdy ==
    /\ with_sdram
    /\ ic_rdy' = 1 - ic_rdy
    /\ UNCHANGED <<with_sdram, cpu_reset, locked, clk200_rst_meta, clk200_rst,
                   ic_reset_counter, ic_reset, ic_rst_meta, ic_rst, ic_rdy_counter,
                   sys_rst, arm_prog, stage, dec1, dec2, n200, nic, wait,
                   ever_released, ever_locked, rdy_d1, rdy_d2>>

\* Faulty variant: cd_sys.rst driven from the bring-up loop together with ic_reset.
Clk200Tick_DrivesPrimaryReset ==
    LET async == Clk200AsyncReset(locked, cpu_reset)
        r == Clk200Update(clk200_rst, ic_reset_counter, ic_reset)
        s == AsyncResetSynchronizer(async, clk200_rst_meta, clk200_rst)
        p == AsyncPreset(r.reset, ic_rst_meta, ic_rst)
    IN  /\ ic_reset_counter' = r.counter
        /\ ic_reset' = r.reset
        /\ sys_rst' = IF r.reset = 1 THEN 1 ELSE sys_rst
        /\ clk200_rst_meta' = s.meta
        /\ clk200_rst' = s.rst
        /\ ic_rst_meta' = p.meta
        /\ ic_rst' = p.rst
        /\ arm_prog' = IF async = 1 /\ arm_prog = 0 THEN 1 ELSE arm_prog
        /\ stage' = IF clk200_rst = 1 THEN 0
                    ELSE IF r.reset = 0 /\ stage = 0 THEN 1 ELSE stage
        /\ dec1' = IF clk200_rst = 1 THEN 0
                   ELSE IF r.counter < ic_reset_counter THEN Min(dec1 + 1, 64) ELSE dec1
        /\ dec2' = IF clk200_rst = 1 THEN 0 ELSE dec2
        /\ n200' = IF async = 1 THEN 0
                   ELSE IF ic_reset = 1 THEN Min(n200 + 1, 70) ELSE n200
        /\ nic' = IF r.reset = 1 THEN 0 ELSE nic
        /\ wait' = IF r.reset = 1 THEN 0 ELSE wait
        /\ UNCHANGED <<with_sdram, cpu_reset, locked, ic_rdy, ic_rdy_counter,
                       ever_released, ever_locked, rdy_d1, rdy_d2>>

\* One edge of the bring-up clock.
Clk200Tick ==
    LET async == Clk200AsyncReset(locked, cpu_reset)
        r == Clk200Update(clk200_rst, ic_reset_counter, ic_reset)
        s == AsyncResetSynchronizer(async, clk200_rst_meta, clk200_rst)
        p == AsyncPreset(r.reset, ic_rst_meta, ic_rst)
    IN  /\ ic_reset_counter' = r.counter
        /\ ic_reset' = r.reset
        /\ clk200_rst_meta' = s.meta
        /\ clk200_rst' = s.rst
        /\ ic_rst_meta' = p.meta
        /\ ic_rst' = p.rst
        /\ arm_prog' = IF async = 1 /\ arm_prog = 0 THEN 1 ELSE arm_prog
        /\ stage' = IF clk200_rst = 1 THEN 0
                    ELSE IF r.reset = 0 /\ stage = 0 THEN 1 ELSE stage
        /\ dec1' = IF clk200_rst = 1 THEN 0
                   ELSE IF r.counter < ic_reset_counter THEN Min(dec1 + 1, 64) ELSE dec1
        /\ dec2' = IF clk200_rst = 1 THEN 0 ELSE dec2
        /\ n200' = IF async = 1 THEN 0
                   ELSE IF ic_reset = 1 THEN Min(n200 + 1, 70) ELSE n200
        /\ nic' = IF r.reset = 1 THEN 0 ELSE nic
        /\ wait' = IF r.reset = 1 THEN 0 ELSE wait
        /\ UNCHANGED <<with_sdram, cpu_reset, locked, ic_rdy, ic_rdy_counter, sys_rst,
                       ever_released, ever_locked, rdy_d1, rdy_d2>>

\* One edge of the primary clock (cd_ic.clk = cd_sys.clk), without the observers
\* wait, rdy_d1 and rdy_d2.
IcEdge ==
    LET async == Clk200AsyncReset(locked, cpu_reset)
        r == IcUpdate(ic_rst, ic_rdy, ic_rdy_counter, sys_rst)
        s == AsyncResetSynchronizer(ic_reset, ic_rst_meta, ic_rst)
        sampled == ic_rst = 0 /\ ic_rdy = 1
    IN  /\ ic_rdy_counter' = r.counter
        /\ sys_rst' = r.rst
        /\ ic_rst_meta' = s.meta
        /\ ic_rst' = s.rst
        /\ arm_prog' = IF async = 1 /\ arm_prog = 1 THEN 2 ELSE arm_prog
        /\ stage' = IF sampled /\ stage = 1 THEN 2
                    ELSE IF sampled /\ stage = 2 /\ r.rst = 0 THEN 3 ELSE stage
        /\ dec2' = IF sampled /\ stage >= 1 /\ r.counter < ic_rdy_counter
                   THEN Min(dec2 + 1, 64) ELSE dec2
        /\ ever_released' = (ever_released \/ r.rst = 0)
        /\ nic' = IF ic_reset = 0 /\ sys_rst = 1 /\ ic_rdy = 1
                  THEN Min(nic + 1, 70) ELSE nic
        /\ UNCHANGED <<with_sdram, cpu_reset, locked, ic_rdy, clk200_rst_meta,
                       clk200_rst, ic_reset_counter, ic_reset, dec1, n200, ever_locked>>

IcTick == IcEdge /\ UNCHANGED <<wait, rdy_d1, rdy_d2>>

Next ==
    \/ SetCpuReset
    \/ SetLocked
    \/ SetRdy
    \/ Clk200Tick
    \/ IcTick

Spec == Init /\ [][Next]_vars

\* Behaviours in which the external reset is never requested.
InitNoReset == Init /\ cpu_reset = 0

NextNoReset ==
    \/ SetLocked
    \/ SetRdy
    \/ Clk200Tick
    \/ IcTick

SpecNoReset == InitNoReset /\ [][NextNoReset]_vars

\* Bring-up scenarios: no external reset, lock is reached once and kept, and with
\* sdram IDELAYCTRL.RDY is low until it rises once, after ic_reset has fallen.
InitBringUp == Init /\ cpu_reset = 0 /\ ic_rdy = (IF with_sdram THEN 0 ELSE 1)

AssertLock == locked = 0 /\ InputChange(1, cpu_reset)

AssertRdy == ic_rdy = 0 /\ ic_reset = 0 /\ SetRdy

IcTickTimed ==
    /\ IcEdge
    /\ wait' = IF ic_reset = 0 /\ ic_rdy = 0 THEN Min(wait + 1, MaxWait) ELSE wait
    /\ UNCHANGED <<rdy_d1, rdy_d2>>

NextBringUp ==
    \/ AssertLock
    \/ AssertRdy
    \/ Clk200Tick
    \/ IcTickTimed

SpecBringUp == InitBringUp /\ [][NextBringUp]_vars

\* All inputs free, the primary tick recording what ic_rdy was at the last two ticks.
IcTickSampled ==
    /\ IcEdge
    /\ rdy_d1' = ic_rdy
    /\ rdy_d2' = rdy_d1
    /\ UNCHANGED wait

NextCrossing ==
    \/ SetCpuReset
    \/ SetLocked
    \/ SetRdy
    \/ Clk200Tick
    \/ IcTickSampled

SpecCrossing == Init /\ [][NextCrossing]_vars

\* Both clocks are free-running: each keeps ticking.
SpecLive == Init /\ [][Next]_vars /\ WF_vars(Clk200Tick) /\ WF_vars(IcTick)

----------------------------------------------------------------------------
\* Predicates shared by the properties below.

\* (a), (b), (c) have happened in this order since the last bring-up re-arm:
\* Countdown-1 made its 63 decrements and ic_reset fell, the primary loop
\* sampled ic_rdy = 1, Countdown-2 made its 63 decrements and cd_sys.rst fell.
PrerequisitesMet == stage = 3 /\ dec1 = 63 /\ dec2 = 63

\* The registers and synchronizer flip-flops hold their values at construction.
ColdStartConfig ==
    /\ ic_reset_counter = 63
    /\ ic_reset = 1
    /\ ic_rdy_counter = 63
    /\ sys_rst = 1
    /\ clk200_rst_meta = 1
    /\ clk200_rst = 1
    /\ ic_rst_meta = 1
    /\ ic_rst = 1

----------------------------------------------------------------------------
\* C1 as stated: in every reachable state, cd_sys.rst = 0 implies that since the
\* most recent re-arm Countdown-1 counted down and ic_reset fell, then ic_rdy
\* was sampled true, then Countdown-2 counted down.
C1_Original == sys_rst = 0 => PrerequisitesMet

\* C1 (amended): cd_sys.rst falls only on a step that completes (a), (b), (c)
\* in order since the last bring-up re-arm, and in every state where cd_sys.rst
\* is 0 either they are complete or a re-arm has reached the bring-up loop and
\* cd_ic.rst is already asserted, waiting for the next primary tick.
C1_ReleaseAfterPrerequisites ==
    /\ [](sys_rst = 0 => (PrerequisitesMet \/ ic_rst = 1))
    /\ [][(sys_rst = 1 /\ sys_rst' = 0) =>
            (stage = 2 /\ PrerequisitesMet' /\ ic_reset = 0 /\ ic_reset_counter = 0)]_vars

C1_Witness == sys_rst = 0 /\ PrerequisitesMet /\ ic_rst = 0 /\ with_sdram

----------------------------------------------------------------------------
\* C2 as stated: cd_sys.rst = 0 implies Countdown-1 = 0, Countdown-2 = 0 and
\* ic_rdy currently 1; ic_reset = 0 implies Countdown-1 = 0.
C2_Original ==
    /\ (sys_rst = 0 => ic_reset_counter = 0 /\ ic_rdy_counter = 0 /\ ic_rdy = 1)
    /\ (ic_reset = 0 => ic_reset_counter = 0)

\* C2 (amended): cd_sys.rst = 0 implies Countdown-2 = 0; ic_reset = 0 implies
\* Countdown-1 = 0; cd_sys.rst = 0 implies Countdown-1 = 0 and ic_reset = 0
\* unless cd_ic.rst is asserted (a re-arm not yet seen by the primary loop);
\* ic_rdy is 1 on the tick that deasserts cd_sys.rst, not necessarily later.
C2_ResetImpliesUpstreamDone ==
    /\ [](sys_rst = 0 => ic_rdy_counter = 0)
    /\ [](ic_reset = 0 => ic_reset_counter = 0)
    /\ [](sys_rst = 0 /\ ic_rst = 0 => ic_reset_counter = 0 /\ ic_reset = 0)
    /\ [][(sys_rst = 1 /\ sys_rst' = 0) => ic_rdy = 1]_vars

C2_Witness == sys_rst = 0 /\ ic_rst = 0 /\ ic_rdy = 0 /\ ic_reset = 0

----------------------------------------------------------------------------
\* C3 as stated: while the external reset is requested, one tick of the
\* bring-up clock reloads Countdown-1 and asserts ic_reset, and one tick of the
\* primary clock reloads Countdown-2 and asserts cd_sys.rst.
C3_Original ==
    [][(cpu_reset = 1 /\ cpu_reset' = 1) =>
         /\ (Clk200Tick => ic_reset_counter' = 63 /\ ic_reset' = 1)
         /\ (IcTick => ic_rdy_counter' = 63 /\ sys_rst' = 1)]_vars

\* C3 (amended): while the external reset is requested, the first bring-up
\* tick reloads Countdown-1 and asserts ic_reset and cd_ic.rst, and the first
\* primary tick that follows that bring-up tick reloads Countdown-2 and asserts
\* cd_sys.rst; the first bring-up tick does so from any state.
C3_ResetReachesBothLoops ==
    /\ [](cpu_reset = 1 /\ arm_prog >= 1 =>
            ic_reset_counter = 63 /\ ic_reset = 1 /\ ic_rst = 1)
    /\ [](cpu_reset = 1 /\ arm_prog = 2 => ic_rdy_counter = 63 /\ sys_rst = 1)
    /\ [][(cpu_reset = 1 /\ cpu_reset' = 1 /\ Clk200Tick) =>
            (ic_reset_counter' = 63 /\ ic_reset' = 1 /\ arm_prog' >= 1)]_vars
    /\ [][(cpu_reset = 1 /\ arm_prog = 1 /\ IcTick) => arm_prog' = 2]_vars

C3_Witness == cpu_reset = 1 /\ locked = 1 /\ arm_prog = 1 /\ sys_rst = 0

----------------------------------------------------------------------------
\* C4 as stated, in behaviours without external reset: cd_sys.rst falls on the
\* primary tick after Countdown-2 reached 0, and once 0 it stays 0.
C4_Original ==
    [][/\ ((IcTick /\ ic_rst = 0 /\ ic_rdy_counter = 0 /\ sys_rst = 1) => sys_rst' = 0)
       /\ (sys_rst = 0 => sys_rst' = 0)]_vars

\* C4 (amended): cd_sys.rst falls on the first primary tick that finds
\* Countdown-2 = 0 with ic_rdy = 1 and cd_ic.rst deasserted, and not before;
\* once 0 it rises again only on a primary tick that finds cd_ic.rst asserted,
\* cd_ic.rst rises only on a bring-up tick that finds cd_clk200.rst asserted,
\* and cd_clk200.rst rises only when ~pll.locked | cpu_reset becomes true: a
\* loss of lock re-asserts it as an external reset does, a change of ic_rdy
\* never does.
C4_ReleaseAndHold ==
    /\ [][(IcTick /\ ic_rst = 0 /\ ic_rdy = 1 /\ ic_rdy_counter = 0) => sys_rst' = 0]_vars
    /\ [][(sys_rst = 1 /\ sys_rst' = 0) =>
            (ic_rst = 0 /\ ic_rdy = 1 /\ ic_rdy_counter = 0)]_vars
    /\ [][(sys_rst = 0 /\ sys_rst' = 1) => ic_rst = 1]_vars
    /\ [][(ic_rst = 0 /\ ic_rst' = 1) => clk200_rst = 1]_vars
    /\ [][(clk200_rst = 0 /\ clk200_rst' = 1) =>
            Clk200AsyncReset(locked', cpu_reset') = 1]_vars
    /\ [][ic_rdy' # ic_rdy => sys_rst' = sys_rst]_vars

C4_Witness == sys_rst = 0 /\ locked = 0 /\ ic_rst = 1 /\ ever_released

----------------------------------------------------------------------------
\* C5: a primary tick that samples ic_rdy = 0 leaves Countdown-2 and cd_sys.rst
\* unchanged, Countdown-2 decreases only on a tick that samples ic_rdy = 1, and
\* the first tick that samples ic_rdy = 1 after a re-arm finds Countdown-2 at
\* its initial value.
C5_CountAfterReady ==
    /\ [][(IcTick /\ ic_rst = 0 /\ ic_rdy = 0) =>
            (ic_rdy_counter' = ic_rdy_counter /\ sys_rst' = sys_rst)]_vars
    /\ [][ic_rdy_counter' < ic_rdy_counter => (ic_rdy = 1 /\ ic_rst = 0)]_vars
    /\ [][(IcTick /\ ic_rst = 0 /\ ic_rdy = 1 /\ stage = 1) => ic_rdy_counter = 63]_vars

C5_Witness == with_sdram /\ stage = 2 /\ ic_rdy_counter = 62 /\ ic_rdy = 0 /\ ic_rst = 0

----------------------------------------------------------------------------
\* C6 as stated (no sdram, no reset, lock kept): ic_reset falls after exactly 64
\* bring-up ticks from lock, cd_sys.rst after exactly 64 further primary ticks.
C6_Original ==
    ~with_sdram => /\ (ic_reset = 0 => n200 = 64)
                   /\ (sys_rst = 0 => nic = 64)

\* C6 (amended): each domain's reset synchronizer adds two ticks. ic_reset falls
\* on the 66th bring-up tick after lock (2 under cd_clk200.rst, 63 decrements,
\* 1 release), cd_sys.rst on the 66th primary tick after ic_reset fell (2 under
\* cd_ic.rst, 63 decrements, 1 release): 64 ticks from the moment each domain's
\* reset is deasserted, 132 ticks in all, every tick after the first two
\* decrementing or releasing.
C6_TicksToRelease ==
    ~with_sdram =>
        /\ (ic_reset = 1 => n200 <= 65)
        /\ (ic_reset = 0 => n200 = 66)
        /\ (sys_rst = 1 => nic <= 65)
        /\ (sys_rst = 0 => nic = 66 /\ n200 + nic = 132)
        /\ (locked = 1 /\ n200 <= 2 => ic_reset_counter = 63)
        /\ (n200 > 2 => ic_reset_counter = 63 - Min(n200 - 2, 63))
        /\ (nic <= 2 => ic_rdy_counter = 63)
        /\ (nic > 2 => ic_rdy_counter = 63 - Min(nic - 2, 63))

C6_Witness == ~with_sdram /\ sys_rst = 0 /\ n200 = 66 /\ nic = 66

----------------------------------------------------------------------------
\* C7 as stated (no sdram): Countdown-2 decrements on the first primary tick
\* after ic_reset falls.
C7_Original == (~with_sdram /\ ic_reset = 0 /\ nic >= 1) => ic_rdy_counter <= 62

\* C7 (amended, no sdram): Countdown-2 never decrements while ic_reset is
\* asserted; after ic_reset falls the first two primary ticks still find
\* cd_ic.rst asserted and reload Countdown-2, and it decrements on the third
\* tick and on every tick after it until it is 0: there is no wait for ic_rdy,
\* only the two ticks of the reset synchronizer.
C7_Stage2AfterSynchronizer ==
    /\ [](~with_sdram /\ ic_reset = 1 => ic_rdy_counter = 63 /\ nic = 0)
    /\ [](~with_sdram /\ ic_reset = 0 /\ nic <= 2 => ic_rdy_counter = 63)
    /\ [](~with_sdram /\ ic_reset = 0 /\ nic > 2 =>
             ic_rdy_counter = 63 - Min(nic - 2, 63))
    /\ [][(~with_sdram /\ IcTickTimed /\ ic_reset = 0 /\ ic_rst = 0 /\ ic_rdy_counter # 0)
            => ic_rdy_counter' = ic_rdy_counter - 1]_vars

C7_Witness == ~with_sdram /\ ic_reset = 0 /\ nic = 3 /\ ic_rdy_counter = 62

----------------------------------------------------------------------------
\* C8 (sdram, ic_rdy rising after `wait` primary ticks that followed the fall of
\* ic_reset, wait >= 2 and in particular wait = 10): Countdown-2 keeps its
\* initial value during all those ticks, and decrements on the first tick after
\* ic_rdy rose and on every later tick until it is 0.
C8_WaitForReady ==
    /\ (with_sdram /\ ic_rdy = 0 => ic_rdy_counter = 63 /\ nic = 0 /\ sys_rst = 1)
    /\ (with_sdram /\ ic_rdy = 1 /\ wait >= 2 =>
            ic_rdy_counter = 63 - Min(nic, 63))
    /\ (with_sdram /\ ic_rdy = 1 /\ wait = 10 /\ nic >= 1 => ic_rdy_counter <= 62)

C8_Witness == with_sdram /\ ic_rdy = 1 /\ wait = 10 /\ nic = 1 /\ ic_rdy_counter = 62

----------------------------------------------------------------------------
\* C9: once a held external reset has been seen by a bring-up tick and then by
\* a primary tick, every register and synchronizer flip-flop has its value at
\* construction, whatever happened before (release included); further ticks
\* under the held reset change none of them, and requesting the reset in the
\* construction configuration changes none of them.
C9_ResetRestoresColdStart ==
    /\ [](cpu_reset = 1 /\ arm_prog = 2 => ColdStartConfig)
    /\ [][(cpu_reset = 1 /\ cpu_reset' = 1 /\ arm_prog = 2) => ColdStartConfig']_vars
    /\ [][(ColdStartConfig /\ cpu_reset' = 1) => ColdStartConfig']_vars

C9_Witness == cpu_reset = 1 /\ locked = 1 /\ arm_prog = 2 /\ ever_released /\ ColdStartConfig

----------------------------------------------------------------------------
\* C10 as stated: whenever the external reset is requested, cd_sys.rst is
\* asserted in that same state.
C10_Original == cpu_reset = 1 => sys_rst = 1

\* C10 (amended): cd_sys.rst is a register of the primary loop. It changes only
\* on a primary tick, a change of cpu_reset leaves it as it is, and under a
\* held external reset it is asserted once a bring-up tick and then a primary
\* tick have occurred.
C10_RegisteredReset ==
    /\ [][sys_rst' # sys_rst => IcTick]_vars
    /\ [][cpu_reset' # cpu_reset => sys_rst' = sys_rst]_vars
    /\ [](cpu_reset = 1 /\ arm_prog = 2 => sys_rst = 1)

C10_Witness == cpu_reset = 1 /\ sys_rst = 0 /\ arm_prog = 0 /\ locked = 1

----------------------------------------------------------------------------
\* C11: as long as pll.locked has never been 1, Countdown-1 holds its initial
\* value, ic_reset is asserted, Countdown-2 holds its initial value and
\* cd_sys.rst is asserted, and no tick of either clock changes a counter.
C11_NoLockNoProgress ==
    /\ [](~ever_locked =>
            /\ ic_reset_counter = 63 /\ ic_reset = 1
            /\ ic_rdy_counter = 63 /\ sys_rst = 1
            /\ clk200_rst = 1 /\ ic_rst = 1)
    /\ [][(~ever_locked /\ (Clk200Tick \/ IcTick)) =>
            (ic_reset_counter' = 63 /\ ic_rdy_counter' = 63 /\ sys_rst' = 1)]_vars

C11_Witness == ~ever_locked /\ cpu_reset = 0 /\ arm_prog = 2 /\ ic_rdy = 1

----------------------------------------------------------------------------
\* C12: with sdram, while the primary loop has not sampled ic_rdy = 1 since
\* Countdown-1 completed, no primary tick decrements Countdown-2 or deasserts
\* cd_sys.rst: after every such tick, and in every such state in which the
\* primary loop runs (cd_ic.rst deasserted), Countdown-2 = 63 and cd_sys.rst = 1.
C12_ParkedUntilReady ==
    /\ [](with_sdram /\ stage = 1 /\ ic_rst = 0 => ic_rdy_counter = 63 /\ sys_rst = 1)
    /\ [][(with_sdram /\ stage = 1 /\ stage' = 1 /\ IcTick) =>
            (ic_rdy_counter' = 63 /\ sys_rst' = 1)]_vars
    /\ [][(with_sdram /\ ic_rst = 0 /\ ic_rdy = 0 /\ IcTick) => stage' = stage]_vars

C12_Witness ==
    with_sdram /\ stage = 1 /\ ic_rst = 0 /\ ic_rdy = 0 /\ ic_rdy_counter = 63 /\ sys_rst = 1

----------------------------------------------------------------------------
\* C13: both counters stay in 0..63; a tick of the loop that finds its counter
\* at 0 leaves it at 0; a counter never increases except by the reload to 63
\* on a tick that finds the reset of its clock domain asserted.
C13_SaturateAtZero ==
    /\ [](ic_reset_counter \in 0..63 /\ ic_rdy_counter \in 0..63)
    /\ [][(Clk200Tick /\ clk200_rst = 0 /\ ic_reset_counter = 0) =>
            ic_reset_counter' = 0]_vars
    /\ [][(IcTick /\ ic_rst = 0 /\ ic_rdy_counter = 0) => ic_rdy_counter' = 0]_vars
    /\ [][ic_reset_counter' > ic_reset_counter =>
            (clk200_rst = 1 /\ ic_reset_counter' = 63)]_vars
    /\ [][ic_rdy_counter' > ic_rdy_counter => (ic_rst = 1 /\ ic_rdy_counter' = 63)]_vars
    /\ [][ic_reset_counter' < ic_reset_counter =>
            ic_reset_counter' = ic_reset_counter - 1]_vars
    /\ [][ic_rdy_counter' < ic_rdy_counter => ic_rdy_counter' = ic_rdy_counter - 1]_vars

C13_Witness ==
    ic_reset_counter = 0 /\ ic_reset = 0 /\ ic_rdy_counter = 0 /\ sys_rst = 0 /\ ic_rst = 0

----------------------------------------------------------------------------
\* C14: ic_reset_counter # 0 implies ic_reset = 1; ic_reset falls on a bring-up
\* tick that finds the counter at 0, and the tick that decrements it from 1
\* to 0 leaves ic_reset asserted.
C14_IntermediateReset ==
    /\ [](ic_reset_counter # 0 => ic_reset = 1)
    /\ [][(ic_reset = 1 /\ ic_reset' = 0) =>
            (ic_reset_counter = 0 /\ ic_reset_counter' = 0 /\ clk200_rst = 0)]_vars
    /\ [][(Clk200Tick /\ ic_reset_counter = 1) =>
            (ic_reset' = 1 /\ (clk200_rst = 0 => ic_reset_counter' = 0))]_vars
    /\ [][(Clk200Tick /\ clk200_rst = 0 /\ ic_reset_counter = 0) => ic_reset' = 0]_vars

C14_Witness == ic_reset_counter = 0 /\ ic_reset = 1 /\ clk200_rst = 0

----------------------------------------------------------------------------
\* C15: a bring-up tick leaves Countdown-2 and cd_sys.rst unchanged, a primary
\* tick leaves Countdown-1 and ic_reset unchanged, also while a reset is being
\* applied; Countdown-1 and ic_reset change only on bring-up ticks, Countdown-2
\* and cd_sys.rst only on primary ticks.
C15_LoopsOwnTheirSignals ==
    /\ [][Clk200Tick => (ic_rdy_counter' = ic_rdy_counter /\ sys_rst' = sys_rst)]_vars
    /\ [][IcTick => (ic_reset_counter' = ic_reset_counter /\ ic_reset' = ic_reset)]_vars
    /\ [][(ic_reset_counter' # ic_reset_counter \/ ic_reset' # ic_reset) => Clk200Tick]_vars
    /\ [][(ic_rdy_counter' # ic_rdy_counter \/ sys_rst' # sys_rst) => IcTick]_vars

C15_Witness ==
    cpu_reset = 1 /\ arm_prog = 1 /\ ic_reset_counter = 63 /\ ic_rdy_counter = 30 /\ sys_rst = 1

----------------------------------------------------------------------------
\* C16 as stated, for ReadySignal: a primary tick decrements Countdown-2 only
\* if ic_rdy was 1 two primary ticks earlier.
C16_Original == [][(IcTickSampled /\ ic_rdy_counter' < ic_rdy_counter) => rdy_d2 = 1]_vars

----------------------------------------------------------------------------
\* C17: a primary tick that samples ic_rdy = 0 changes neither Countdown-2 nor
\* cd_sys.rst, so a count that has started is paused, not reloaded: while the
\* primary loop runs and cd_sys.rst is asserted, Countdown-2 is 63 minus the
\* number of ticks that sampled ic_rdy = 1 since the re-arm, and cd_sys.rst
\* falls on the 64th such tick; once it has fallen, neither a change of ic_rdy
\* nor a tick of the running primary loop re-asserts it.
C17_PauseWithoutReload ==
    /\ [][(IcTick /\ ic_rst = 0 /\ ic_rdy = 0) =>
            (ic_rdy_counter' = ic_rdy_counter /\ sys_rst' = sys_rst /\ dec2' = dec2)]_vars
    /\ [](ic_rst = 0 /\ sys_rst = 1 => ic_rdy_counter = 63 - dec2)
    /\ [][(IcTick /\ ic_rst = 0 /\ ic_rdy = 1 /\ sys_rst = 1 /\ dec2 < 63) =>
            (dec2' = dec2 + 1 /\ sys_rst' = 1)]_vars
    /\ [][(sys_rst = 1 /\ sys_rst' = 0) => (dec2 = 63 /\ ic_rdy = 1 /\ ic_rst = 0)]_vars
    /\ [][(sys_rst = 0 /\ ic_rst = 0 /\ (IcTick \/ ic_rdy' # ic_rdy)) => sys_rst' = 0]_vars

C17_Witness ==
    with_sdram /\ ic_rst = 0 /\ ic_rdy = 0 /\ sys_rst = 1 /\ dec2 = 20 /\ ic_rdy_counter = 43

----------------------------------------------------------------------------
\* C18: a loss of lock without external reset asserts cd_clk200.rst at once;
\* the next bring-up tick reloads Countdown-1 and asserts ic_reset and
\* cd_ic.rst, and the next primary tick after it reloads Countdown-2 and
\* asserts cd_sys.rst, from any state, released or not; while lock stays lost
\* the registers then hold their values at construction.
C18_LockLossRearms ==
    /\ [][(locked = 1 /\ locked' = 0) => (clk200_rst' = 1 /\ clk200_rst_meta' = 1)]_vars
    /\ [][(Clk200Tick /\ clk200_rst = 1) =>
            (ic_reset_counter' = 63 /\ ic_reset' = 1 /\ ic_rst' = 1)]_vars
    /\ [][(IcTick /\ ic_rst = 1) => (ic_rdy_counter' = 63 /\ sys_rst' = 1)]_vars
    /\ [](locked = 0 /\ cpu_reset = 0 /\ arm_prog >= 1 =>
            ic_reset_counter = 63 /\ ic_reset = 1 /\ ic_rst = 1)
    /\ [](locked = 0 /\ cpu_reset = 0 /\ arm_prog = 2 => ColdStartConfig)

C18_Witness ==
    locked = 0 /\ cpu_reset = 0 /\ arm_prog = 2 /\ ever_released /\ ever_locked /\ sys_rst = 1

----------------------------------------------------------------------------
\* C19: with both clocks ticking, if from some point on cpu_reset stays 0,
\* pll.locked stays 1 and ic_rdy stays 1, then from some point on cd_sys.rst
\* stays deasserted.
C19_EventuallyReleased ==
    <>[](cpu_reset = 0 /\ locked = 1 /\ ic_rdy = 1) => <>[](sys_rst = 0)

C19_Witness ==
    sys_rst = 0 /\ cpu_reset = 0 /\ locked = 1 /\ ic_rdy = 1 /\ ic_rst = 0 /\ clk200_rst = 0

====
